---- MODULE Spec2Model ----
(***************************************************************************)
(* Model of pandr.py: a Telegram bot keeping two module-level lists,       *)
(* profiles_inbox and call_results, mutated by asyncio handlers.           *)
(*                                                                         *)
(* A handler is a coroutine: it runs on the event loop until it reaches    *)
(* an await, and other handlers can run only while it is suspended.        *)
(* `running` is the task that holds the event loop (0 = loop free).        *)
(* Every reply_text call is recorded in `sent`, in call order.             *)
(* reply_text is taken to return: a raising reply changes neither list.    *)
(*                                                                         *)
(* A behaviour has at most MaxUpdates updates, of which at most MaxQuiet   *)
(* are answered without a change of either list (nupdates, nquiet).        *)
(*                                                                         *)
(* A JSON object is a function from its keys to its values.  win_rate is   *)
(* kept in tenths of a percent (50.0 is 500).                              *)
(***************************************************************************)
EXTENDS Integers, Sequences, FiniteSets, TLC

VARIABLES profiles_inbox, call_results, task, running, sent, nupdates, nquiet

vars == <<profiles_inbox, call_results, task, running, sent, nupdates, nquiet>>

(* ---------------------------- bounds ----------------------------------- *)

NTasks == 2

MaxUpdates == 3

MaxQuiet == 1

MaxLog == 4

Tasks == 1..NTasks

(* ------------------------- JSON objects -------------------------------- *)

Has(d, k) == k \in DOMAIN d

Get(d, k, default) == IF k \in DOMAIN d THEN d[k] ELSE default

SetItem(d, k, v) == [x \in DOMAIN d \cup {k} |-> IF x = k THEN v ELSE d[x]]

EmptyDict == <<>>

(* ------------------------------ inputs --------------------------------- *)

ProfilePayloads ==
  { [firstName |-> "Jo", lastName |-> "Li"],
    [firstName |-> "", lastName |-> "", company |-> "Tech Corp",
     outcome |-> "won", scriptName |-> "intro"] }

CallPayloads ==
  { [lastName |-> "Li", outcome |-> "won", scriptName |-> "intro", duration |-> 60] }

OtherPayloads ==
  { [foo |-> "bar"] }

Payloads == ProfilePayloads \cup CallPayloads \cup OtherPayloads

ParseError == [error |-> "JSONDecodeError"]

\* a text message: does text.strip() start with '{' and end with '}', and
\* what json.loads(text) gives
TextInputs ==
  { [braces |-> FALSE, json |-> ParseError] }
    \cup { [braces |-> TRUE, json |-> j] : j \in Payloads \cup {ParseError} }

\* what json.loads gives for the bytes of a downloaded file
FileContents == Payloads \cup {ParseError}

\* from_user: username is "" when the account has none
Users ==
  { [username |-> "", first_name |-> "Sam"] }

\* values of datetime.now().isoformat()
Times == { "2026-01-01T10:00:00" }

(* ---------------------------- statistics ------------------------------- *)

\* counts the outcome whatever its letter case ("Won" as "won")
RECURSIVE CountOutcome_AnyCase(_, _)
CountOutcome_AnyCase(log, o) ==
  IF log = <<>> THEN 0
  ELSE (IF Has(Head(log), "outcome")
             /\ (Head(log).outcome = o \/ (o = "won" /\ Head(log).outcome = "Won"))
          THEN 1 ELSE 0)
         + CountOutcome_AnyCase(Tail(log), o)

RECURSIVE CountOutcome(_, _)
CountOutcome(log, o) ==
  IF log = <<>> THEN 0
  ELSE (IF Has(Head(log), "outcome") /\ Head(log).outcome = o THEN 1 ELSE 0)
         + CountOutcome(Tail(log), o)

RECURSIVE SumDuration(_)
SumDuration(log) ==
  IF log = <<>> THEN 0
  ELSE Get(Head(log), "duration", 0) + SumDuration(Tail(log))

RECURSIVE SumStat(_, _)
SumStat(log, k) ==
  IF log = <<>> THEN 0
  ELSE Get(Get(Head(log), "stats", EmptyDict), k, 0) + SumStat(Tail(log), k)

\* int(a / b): the quotient truncated toward zero (b > 0)
IntOfQuotient(a, b) == IF a >= 0 THEN a \div b ELSE -((-a) \div b)

\* truncates to one decimal place instead of rounding
RoundTenths_Truncate(won, total) == (won * 1000) \div total

\* round(won / total * 100, 1), in tenths: the nearest tenth, ties to even
RoundTenths(won, total) ==
  LET n == won * 1000
      q == n \div total
      r == n % total
  IN  IF 2 * r < total THEN q
      ELSE IF 2 * r > total THEN q + 1
      ELSE IF q % 2 = 0 THEN q ELSE q + 1

calculate_stats(log) ==
  IF log = <<>>
    THEN [total_calls |-> 0, won |-> 0, lost |-> 0, follow_up |-> 0,
          win_rate |-> 0, avg_duration |-> 0,
          total_positive |-> 0, total_negative |-> 0, total_neutral |-> 0]
    ELSE LET total == Len(log)
             won == CountOutcome(log, "won")
         IN  [total_calls |-> total,
              won |-> won,
              lost |-> CountOutcome(log, "lost"),
              follow_up |-> CountOutcome(log, "follow-up"),
              win_rate |-> RoundTenths(won, total),
              avg_duration |-> IntOfQuotient(SumDuration(log), total),
              total_positive |-> SumStat(log, "positive"),
              total_negative |-> SumStat(log, "negative"),
              total_neutral |-> SumStat(log, "neutral")]

(* ------------------------- duration formatting ------------------------- *)

Digit == <<"0", "1", "2", "3", "4", "5", "6", "7", "8", "9">>

\* str(n) for a natural number
RECURSIVE NatStr(_)
NatStr(n) == IF n < 10 THEN Digit[n + 1] ELSE NatStr(n \div 10) \o Digit[(n % 10) + 1]

\* f"{n}"
IntStr(n) == IF n < 0 THEN "-" \o NatStr(-n) ELSE NatStr(n)

\* f"{n:02d}"
Pad2(n) ==
  IF n < 0 THEN "-" \o NatStr(-n)
  ELSE IF n < 10 THEN "0" \o NatStr(n) ELSE NatStr(n)

\* the result is a string for every integer: no branch raises
format_duration(seconds) ==
  LET minutes == seconds \div 60
      secs == seconds % 60
  IN  [raised |-> FALSE, value |-> IntStr(minutes) \o ":" \o Pad2(secs)]

(* ------------------------------ tasks ---------------------------------- *)

\* pc: "idle" (no handler running in this task), "get_file", "download",
\* "reply" (suspended in an await), "clear_143", "text_229", "doc_198"
\* (between two statements, holding the event loop).
IdleTask == [pc |-> "idle", count |-> 0, profile_data |-> EmptyDict]

\* a coroutine runs when no other coroutine holds the event loop
LoopFree(t) == running \in {0, t}

\* an update is handled by the first free task
CanStart(t) ==
  /\ running = 0
  /\ task[t].pc = "idle"
  /\ \A u \in Tasks : u < t => task[u].pc # "idle"
  /\ nupdates < MaxUpdates

\* await update.message.reply_text(msg): the call is made, the task suspends;
\* no handler reads a local after its reply, so the locals are dropped here
ReplyText(t, msg) ==
  /\ sent' = Append(sent, msg)
  /\ task' = [task EXCEPT ![t] = [pc |-> "reply", count |-> 0,
                                  profile_data |-> EmptyDict]]
  /\ running' = 0

\* a reply that ends a handler which changed neither list
QuietReply(t, msg) ==
  /\ nquiet < MaxQuiet
  /\ nquiet' = nquiet + 1
  /\ ReplyText(t, msg)

\* update.message.from_user.username or update.message.from_user.first_name
ReceivedFrom(user) == IF user.username # "" THEN user.username ELSE user.first_name

Stamp(profile_data, now, user) ==
  SetItem(SetItem(profile_data, "received_at", now), "received_from", ReceivedFrom(user))

\* takes any payload with a name key for a profile attempt
IsCallResult_NoNames(d) ==
  Has(d, "outcome") /\ Has(d, "scriptName") /\ ~Has(d, "firstName") /\ ~Has(d, "lastName")

\* elif 'outcome' in profile_data and 'scriptName' in profile_data
IsCallResult(d) == Has(d, "outcome") /\ Has(d, "scriptName")

\* tests the call-result keys first
IsProfile_CallFirst(d) ==
  Has(d, "firstName") /\ Has(d, "lastName") /\ ~(Has(d, "outcome") /\ Has(d, "scriptName"))

\* if 'firstName' in profile_data and 'lastName' in profile_data
IsProfile(d) == Has(d, "firstName") /\ Has(d, "lastName")

\* skips a profile that is already stored
AddProfile_Dedup(inbox, profile_data) ==
  IF \E i \in DOMAIN inbox : inbox[i] = profile_data THEN inbox ELSE Append(inbox, profile_data)

\* profiles_inbox.append(profile_data)
AddProfile(inbox, profile_data) == Append(inbox, profile_data)

\* call_results.append(profile_data)
AddCallResult(log, profile_data) == Append(log, profile_data)

(* ------------------------------ commands ------------------------------- *)

Start(t) ==
  /\ CanStart(t)
  /\ QuietReply(t, [type |-> "welcome"])
  /\ nupdates' = nupdates + 1
  /\ UNCHANGED <<profiles_inbox, call_results>>

HelpCommand(t) ==
  /\ CanStart(t)
  /\ QuietReply(t, [type |-> "help"])
  /\ nupdates' = nupdates + 1
  /\ UNCHANGED <<profiles_inbox, call_results>>

StatsMessage(stats_data) ==
  [type |-> "stats",
   data |-> stats_data,
   avg_duration |-> format_duration(stats_data.avg_duration),
   sentiment |-> stats_data.total_positive - stats_data.total_negative]

Stats(t) ==
  /\ CanStart(t)
  /\ LET msg == StatsMessage(calculate_stats(call_results))
     IN  IF msg.avg_duration.raised
           THEN QuietReply(t, [type |-> "generic_error"])
           ELSE QuietReply(t, msg)
  /\ nupdates' = nupdates + 1
  /\ UNCHANGED <<profiles_inbox, call_results>>

InboxEntry(profile) ==
  [firstName |-> Get(profile, "firstName", "N/A"),
   lastName |-> Get(profile, "lastName", "N/A"),
   company |-> Get(profile, "company", "N/A"),
   phoneNumber |-> Get(profile, "phoneNumber", "N/A"),
   city |-> Get(profile, "city", "N/A"),
   state |-> Get(profile, "state", "N/A")]

Inbox(t) ==
  /\ CanStart(t)
  /\ IF profiles_inbox = <<>>
       THEN QuietReply(t, [type |-> "inbox_empty"])
       ELSE QuietReply(t,
                      [type |-> "inbox", count |-> Len(profiles_inbox),
                       listing |-> [i \in 1..Len(profiles_inbox) |->
                                      InboxEntry(profiles_inbox[i])]])
  /\ nupdates' = nupdates + 1
  /\ UNCHANGED <<profiles_inbox, call_results>>

\* suspends between the count and the clear
ClearInboxCount_Yield(t) ==
  /\ CanStart(t)
  /\ task' = [task EXCEPT ![t] = [pc |-> "clear_143", count |-> Len(profiles_inbox),
                                  profile_data |-> EmptyDict]]
  /\ running' = 0
  /\ nupdates' = nupdates + 1
  /\ UNCHANGED <<profiles_inbox, call_results, sent, nquiet>>

\* line 142: count = len(profiles_inbox); no await follows, the task keeps the loop
ClearInboxCount(t) ==
  /\ CanStart(t)
  /\ task' = [task EXCEPT ![t] = [pc |-> "clear_143", count |-> Len(profiles_inbox),
                                  profile_data |-> EmptyDict]]
  /\ running' = t
  /\ nupdates' = nupdates + 1
  /\ UNCHANGED <<profiles_inbox, call_results, sent, nquiet>>

\* reads the count after the clear
ClearInboxClear_CountAfter(t) ==
  /\ LoopFree(t)
  /\ task[t].pc = "clear_143"
  /\ profiles_inbox' = <<>>
  /\ ReplyText(t, [type |-> "cleared", count |-> Len(profiles_inbox')])
  /\ UNCHANGED <<call_results, nupdates, nquiet>>

\* clears the call results together with the inbox
ClearInboxClear_Both(t) ==
  /\ LoopFree(t)
  /\ task[t].pc = "clear_143"
  /\ profiles_inbox' = <<>>
  /\ call_results' = <<>>
  /\ ReplyText(t, [type |-> "cleared", count |-> task[t].count])
  /\ UNCHANGED <<nupdates, nquiet>>

\* lines 143-144: profiles_inbox.clear(); await reply_text(f"Cleared {count} ...")
ClearInboxClear(t) ==
  /\ LoopFree(t)
  /\ task[t].pc = "clear_143"
  /\ profiles_inbox' = <<>>
  /\ ReplyText(t, [type |-> "cleared", count |-> task[t].count])
  /\ UNCHANGED <<call_results, nupdates, nquiet>>

(* ---------------------------- handle_text ------------------------------ *)

Confirmation(profile_data, n) ==
  [type |-> "profile_added",
   firstName |-> profile_data.firstName,
   lastName |-> profile_data.lastName,
   company |-> Get(profile_data, "company", "N/A"),
   count |-> n]

\* lines 198-206: the file confirmation also shows the phone number
DocConfirmation(profile_data, n) ==
  [type |-> "profile_added",
   firstName |-> profile_data.firstName,
   lastName |-> profile_data.lastName,
   company |-> Get(profile_data, "company", "N/A"),
   phoneNumber |-> Get(profile_data, "phoneNumber", "N/A"),
   count |-> n]

\* lines 218-227, 239-251
HandleText(t, text, user, now) ==
  /\ CanStart(t)
  /\ nupdates' = nupdates + 1
  /\ IF ~text.braces
       THEN /\ QuietReply(t, [type |-> "hint"])
            /\ UNCHANGED <<profiles_inbox, call_results>>
     ELSE IF text.json = ParseError
       THEN /\ QuietReply(t, [type |-> "invalid_json"])
            /\ UNCHANGED <<profiles_inbox, call_results>>
     ELSE IF IsProfile(text.json)
       THEN LET profile_data == Stamp(text.json, now, user)
            IN  /\ profiles_inbox' = AddProfile(profiles_inbox, profile_data)
                /\ task' = [task EXCEPT ![t] = [pc |-> "text_229", count |-> 0,
                                                profile_data |-> profile_data]]
                /\ running' = t
                /\ UNCHANGED <<call_results, sent, nquiet>>
     ELSE IF IsCallResult(text.json)
       THEN /\ call_results' = AddCallResult(call_results, text.json)
            /\ ReplyText(t, [type |-> "call_recorded"])
            /\ UNCHANGED <<profiles_inbox, nquiet>>
     ELSE /\ QuietReply(t, [type |-> "unknown_format"])
          /\ UNCHANGED <<profiles_inbox, call_results>>

\* lines 229-237: the confirmation reads len(profiles_inbox)
HandleTextConfirm(t) ==
  /\ LoopFree(t)
  /\ task[t].pc = "text_229"
  /\ ReplyText(t, Confirmation(task[t].profile_data, Len(profiles_inbox)))
  /\ UNCHANGED <<profiles_inbox, call_results, nupdates, nquiet>>

(* -------------------------- handle_document ---------------------------- *)

\* lines 179-186
HandleDocument(t, is_json_name) ==
  /\ CanStart(t)
  /\ nupdates' = nupdates + 1
  /\ IF ~is_json_name
       THEN QuietReply(t, [type |-> "not_json_file"])
       ELSE /\ task' = [task EXCEPT ![t] = [pc |-> "get_file", count |-> 0,
                                            profile_data |-> EmptyDict]]
            /\ running' = 0
            /\ UNCHANGED <<sent, nquiet>>
  /\ UNCHANGED <<profiles_inbox, call_results>>

\* line 186 returns, line 187 awaits the download
GetFileDone(t) ==
  /\ LoopFree(t)
  /\ task[t].pc = "get_file"
  /\ task' = [task EXCEPT ![t].pc = "download"]
  /\ running' = 0
  /\ UNCHANGED <<profiles_inbox, call_results, sent, nupdates, nquiet>>

\* line 186 or 187 raises: except Exception, lines 212-214
FetchFail(t) ==
  /\ LoopFree(t)
  /\ task[t].pc \in {"get_file", "download"}
  /\ QuietReply(t, [type |-> "file_error"])
  /\ UNCHANGED <<profiles_inbox, call_results, nupdates>>

\* lines 187-196, 210-211
DownloadDone(t, content, user, now) ==
  /\ LoopFree(t)
  /\ task[t].pc = "download"
  /\ IF content = ParseError
       THEN /\ QuietReply(t, [type |-> "invalid_json_file"])
            /\ UNCHANGED profiles_inbox
     ELSE IF ~(\A field \in {"firstName", "lastName"} : Has(content, field))
       THEN /\ QuietReply(t, [type |-> "invalid_profile"])
            /\ UNCHANGED profiles_inbox
     ELSE LET profile_data == Stamp(content, now, user)
          IN  /\ profiles_inbox' = AddProfile(profiles_inbox, profile_data)
              /\ task' = [task EXCEPT ![t] = [pc |-> "doc_198", count |-> 0,
                                              profile_data |-> profile_data]]
              /\ running' = t
              /\ UNCHANGED <<sent, nquiet>>
  /\ UNCHANGED <<call_results, nupdates>>

\* lines 198-208
HandleDocumentConfirm(t) ==
  /\ LoopFree(t)
  /\ task[t].pc = "doc_198"
  /\ ReplyText(t, DocConfirmation(task[t].profile_data, Len(profiles_inbox)))
  /\ UNCHANGED <<profiles_inbox, call_results, nupdates, nquiet>>

(* ------------------------------ replies -------------------------------- *)

\* the awaited reply_text returns and the handler ends
ReplyDone(t) ==
  /\ LoopFree(t)
  /\ task[t].pc = "reply"
  /\ task' = [task EXCEPT ![t] = IdleTask]
  /\ running' = 0
  /\ UNCHANGED <<profiles_inbox, call_results, sent, nupdates, nquiet>>

(* --------------------------- specification ----------------------------- *)

Init ==
  /\ profiles_inbox = <<>>
  /\ call_results = <<>>
  /\ task = [t \in Tasks |-> IdleTask]
  /\ running = 0
  /\ sent = <<>>
  /\ nupdates = 0
  /\ nquiet = 0

Next ==
  \/ \E t \in Tasks : Start(t)
  \/ \E t \in Tasks : HelpCommand(t)
  \/ \E t \in Tasks : Stats(t)
  \/ \E t \in Tasks : Inbox(t)
  \/ \E t \in Tasks : ClearInboxCount(t)
  \/ \E t \in Tasks : ClearInboxClear(t)
  \/ \E t \in Tasks, text \in TextInputs, user \in Users, now \in Times :
       HandleText(t, text, user, now)
  \/ \E t \in Tasks : HandleTextConfirm(t)
  \/ \E t \in Tasks, is_json_name \in BOOLEAN : HandleDocument(t, is_json_name)
  \/ \E t \in Tasks : GetFileDone(t)
  \/ \E t \in Tasks : FetchFail(t)
  \/ \E t \in Tasks, content \in FileContents, user \in Users, now \in Times :
       DownloadDone(t, content, user, now)
  \/ \E t \in Tasks : HandleDocumentConfirm(t)
  \/ \E t \in Tasks : ReplyDone(t)

Spec == Init /\ [][Next]_vars

(* ------------- statistics over an arbitrary call-result log ------------ *)

\* call results as handle_text stores them: outcome and scriptName present,
\* firstName or lastName absent, no metadata added
StatsPayloads ==
  { [outcome |-> "won", scriptName |-> "intro", duration |-> 60],
    [outcome |-> "won", scriptName |-> "intro", duration |-> 120],
    [outcome |-> "lost", scriptName |-> "intro", duration |-> 30],
    [outcome |-> "follow-up", scriptName |-> "intro", duration |-> 90],
    [outcome |-> "Won", scriptName |-> "intro"],
    [outcome |-> "lost", scriptName |-> "pitch", duration |-> 59],
    [outcome |-> "follow-up", scriptName |-> "pitch", duration |-> 0],
    [outcome |-> "maybe", scriptName |-> "pitch", duration |-> 125, firstName |-> "Jo",
     stats |-> [positive |-> 2, neutral |-> 1]],
    [outcome |-> "lost", scriptName |-> "pitch", duration |-> -5,
     stats |-> [negative |-> 3]] }

Logs == UNION { [1..n -> StatsPayloads] : n \in 0..MaxLog }

InitStats ==
  /\ profiles_inbox = <<>>
  /\ call_results \in Logs
  /\ task = [t \in Tasks |-> IdleTask]
  /\ running = 0
  /\ sent = <<>>
  /\ nupdates = 0
  /\ nquiet = 0

NextStats ==
  \/ \E t \in Tasks : Stats(t)
  \/ \E t \in Tasks : ReplyDone(t)

SpecStats == InitStats /\ [][NextStats]_vars

(* ======================== properties ================================== *)

IsPrefix(s1, s2) == Len(s1) <= Len(s2) /\ SubSeq(s2, 1, Len(s1)) = s1

SentOf(type) == { i \in DOMAIN sent : sent[i].type = type }

LastSent(msgs) == msgs[Len(msgs)]

MetaKeys == {"received_at", "received_from"}

\* the stored entry is the payload plus, at most, the two metadata keys
StoredFrom(entry, d) ==
  /\ DOMAIN d \subseteq DOMAIN entry
  /\ DOMAIN entry \subseteq DOMAIN d \cup MetaKeys
  /\ \A k \in DOMAIN d \ MetaKeys : entry[k] = d[k]

OneAppended(old, new) == Len(new) = Len(old) + 1 /\ SubSeq(new, 1, Len(old)) = old

HasNames(d) == {"firstName", "lastName"} \subseteq DOMAIN d

HasCallKeys(d) == {"outcome", "scriptName"} \subseteq DOMAIN d

(* ------------------------------- C1 ------------------------------------ *)

C1_Step ==
  \A t \in Tasks, user \in Users, now \in Times, d \in Payloads :
    HasNames(d) =>
      /\ HandleText(t, [braces |-> TRUE, json |-> d], user, now) =>
           /\ OneAppended(profiles_inbox, profiles_inbox')
           /\ StoredFrom(LastSent(profiles_inbox'), d)
           /\ call_results' = call_results
      /\ DownloadDone(t, d, user, now) =>
           /\ OneAppended(profiles_inbox, profiles_inbox')
           /\ StoredFrom(LastSent(profiles_inbox'), d)
           /\ call_results' = call_results

\* C1: a decoded payload with both a firstName and a lastName key (empty
\* values and extra outcome/scriptName keys included) is handled as a
\* Profile on both routes: one entry is appended to the inbox and the
\* call-result log is unchanged.
C1_ProfileClassified == [][C1_Step]_vars

\* a payload with all four keys and empty names sits in the inbox, the log is empty
C1_Witness ==
  /\ call_results = <<>>
  /\ \E i \in DOMAIN profiles_inbox :
       /\ HasCallKeys(profiles_inbox[i])
       /\ profiles_inbox[i].firstName = ""

(* ------------------------------- C2 ------------------------------------ *)

C2_TextStep(t, d, user, now) ==
  HandleText(t, [braces |-> TRUE, json |-> d], user, now) =>
    /\ OneAppended(call_results, call_results')
    /\ LastSent(call_results') = d
    /\ profiles_inbox' = profiles_inbox

C3_ClearStep ==
  \A t \in Tasks :
    ClearInboxClear(t) =>
      /\ profiles_inbox' = <<>>
      /\ LastSent(sent') = [type |-> "cleared", count |-> Len(profiles_inbox)]

C3_Consecutive ==
  \A i, j \in SentOf("cleared") :
    (i < j /\ \A k \in SentOf("profile_added") : ~(i < k /\ k < j)) => sent[j].count = 0

\* C3: clear_inbox reports the number of profiles in the inbox at the call
\* and leaves it empty (0 on an empty inbox); of two clears with no add in
\* between, the second reports 0.
C3_ClearInbox == [][C3_ClearStep /\ C3_Consecutive']_vars

\* an add, then a clear reporting 1, then a clear reporting 0
C3_Witness ==
  /\ profiles_inbox = <<>>
  /\ \E i, j \in SentOf("cleared") :
       /\ j = i + 1
       /\ sent[i].count = 1
       /\ sent[j].count = 0

(* ------------------------------- C4 ------------------------------------ *)

\* C4: the call-result log is append-only: every step of every handler
\* leaves the previous log as a prefix of the new one.
C4_LogAppendOnly == [][IsPrefix(call_results, call_results')]_vars

\* a call result was recorded and the inbox cleared afterwards
C4_Witness ==
  /\ call_results # <<>>
  /\ \E i \in SentOf("call_recorded"), j \in SentOf("cleared") : i < j /\ sent[j].count > 0

(* ------------------------------- C5 ------------------------------------ *)

C5_AddStep ==
  \A t \in Tasks, user \in Users, now \in Times, d \in ProfilePayloads :
    /\ HandleText(t, [braces |-> TRUE, json |-> d], user, now) =>
         profiles_inbox' = profiles_inbox \o <<Stamp(d, now, user)>>
    /\ DownloadDone(t, d, user, now) =>
         profiles_inbox' = profiles_inbox \o <<Stamp(d, now, user)>>

C5_ConfirmStep ==
  \A t \in Tasks :
    (HandleTextConfirm(t) \/ HandleDocumentConfirm(t)) =>
      LastSent(sent').count = Len(profiles_inbox')

C5_ListStep ==
  \A t \in Tasks :
    (Inbox(t) /\ profiles_inbox # <<>>) =>
      /\ Len(LastSent(sent').listing) = Len(profiles_inbox)
      /\ \A i \in DOMAIN profiles_inbox :
           /\ LastSent(sent').listing[i].firstName = profiles_inbox[i].firstName
           /\ LastSent(sent').listing[i].lastName = profiles_inbox[i].lastName

\* with no clear so far, the k-th confirmation reports k and names the k-th entry
C5_FromEmpty ==
  SentOf("cleared") = {} =>
    \A i \in SentOf("profile_added") :
      LET k == Cardinality({ j \in SentOf("profile_added") : j <= i })
      IN  /\ sent[i].count = k
          /\ k <= Len(profiles_inbox)
          /\ profiles_inbox[k].firstName = sent[i].firstName
          /\ profiles_inbox[k].lastName = sent[i].lastName

\* C5: adding a profile appends it at the end, without deduplication and
\* without touching earlier entries; the confirmation reports the inbox
\* length after the append; from an empty inbox two adds report 1 then 2 and
\* /inbox lists the entries in insertion order.
C5_AddProfile == [][C5_AddStep /\ C5_ConfirmStep /\ C5_ListStep /\ C5_FromEmpty']_vars

\* the same profile added twice: two equal entries, confirmations 1 and 2
C5_Witness ==
  /\ Len(profiles_inbox) = 2
  /\ profiles_inbox[1] = profiles_inbox[2]
  /\ \E i, j \in SentOf("profile_added") : i < j /\ sent[i].count = 1 /\ sent[j].count = 2

(* ------------------------------- C6 ------------------------------------ *)

OutcomeCount(o) ==
  Cardinality({ k \in DOMAIN call_results :
                  "outcome" \in DOMAIN call_results[k] /\ call_results[k].outcome = o })

\* C6: total_calls is the log length; won, lost and follow_up count the
\* entries whose outcome is exactly "won", "lost", "follow-up"; other
\* outcomes are in no bucket; on the empty log every field is 0.
C6_StatsCounts ==
  \A i \in SentOf("stats") :
    LET d == sent[i].data
    IN  /\ d.total_calls = Len(call_results)
        /\ d.won = OutcomeCount("won")
        /\ d.lost = OutcomeCount("lost")
        /\ d.follow_up = OutcomeCount("follow-up")
        /\ d.won + d.lost + d.follow_up <= d.total_calls
        /\ call_results = <<>> =>
             d = [total_calls |-> 0, won |-> 0, lost |-> 0, follow_up |-> 0,
                  win_rate |-> 0, avg_duration |-> 0,
                  total_positive |-> 0, total_negative |-> 0, total_neutral |-> 0]

\* a report over a log holding a "Won" and a "maybe" entry next to a "won" one
C6_Witness ==
  /\ \E k \in DOMAIN call_results : call_results[k].outcome = "Won"
  /\ \E k \in DOMAIN call_results : call_results[k].outcome = "maybe"
  /\ \E i \in SentOf("stats") :
       /\ sent[i].data.won >= 1
       /\ sent[i].data.won + sent[i].data.lost + sent[i].data.follow_up
            < sent[i].data.total_calls

(* ------------------------------- C7 ------------------------------------ *)

RECURSIVE DurationUpTo(_)
DurationUpTo(n) ==
  IF n = 0 THEN 0
  ELSE DurationUpTo(n - 1)
         + (IF "duration" \in DOMAIN call_results[n] THEN call_results[n].duration ELSE 0)

NonNegativeDurations ==
  \A k \in DOMAIN call_results :
    "duration" \in DOMAIN call_results[k] => call_results[k].duration >= 0

ExampleLog ==
  << [outcome |-> "won", scriptName |-> "intro", duration |-> 60],
     [outcome |-> "won", scriptName |-> "intro", duration |-> 120],
     [outcome |-> "lost", scriptName |-> "intro", duration |-> 30],
     [outcome |-> "follow-up", scriptName |-> "intro", duration |-> 90] >>

Abs(x) == IF x < 0 THEN -x ELSE x

\* C7: on a non-empty log with non-negative durations avg_duration is the
\* floor of sum(duration)/total and win_rate (in tenths) is the tenth
\* nearest to won/total*100; on the empty log both are 0; the example log
\* gives 50.0 and 75.
C7_StatsRatios ==
  \A i \in SentOf("stats") :
    LET d == sent[i].data
        n == Len(call_results)
        sum == DurationUpTo(n)
    IN  /\ n = 0 => d.win_rate = 0 /\ d.avg_duration = 0
        /\ (n > 0 /\ NonNegativeDurations) =>
             /\ d.avg_duration * n <= sum
             /\ sum < (d.avg_duration + 1) * n
             /\ 2 * Abs(d.win_rate * n - 1000 * OutcomeCount("won")) <= n
        /\ call_results = ExampleLog => d.win_rate = 500 /\ d.avg_duration = 75

\* the example log was reported
C7_Witness ==
  /\ call_results = ExampleLog
  /\ \E i \in SentOf("stats") : sent[i].data.win_rate = 500 /\ sent[i].data.avg_duration = 75

(* ------------------------------- C8 ------------------------------------ *)

TwoDigits(n) == Digit[(n \div 10) + 1] \o Digit[(n % 10) + 1]

\* C8: format_duration raises for every negative second count, and for
\* s >= 0 returns floor(s/60), a colon and s mod 60 on two digits.
C8_FormatDuration ==
  \A i \in SentOf("stats") :
    LET s == sent[i].data.avg_duration
        f == sent[i].avg_duration
    IN  /\ s < 0 => f.raised
        /\ s >= 0 => ~f.raised /\ f.value = NatStr(s \div 60) \o ":" \o TwoDigits(s % 60)
        /\ s = 125 => f.value = "2:05"
        /\ s = 59 => f.value = "0:59"
        /\ s = 0 => f.value = "0:00"

(* ------------------------------- C9 ------------------------------------ *)

Stamped(entry) == MetaKeys \subseteq DOMAIN entry

\* C9: every entry of the profile inbox and every entry of the call-result
\* log carries a received timestamp and a submitter identity.
C9_AllStamped ==
  /\ \A i \in DOMAIN profiles_inbox : Stamped(profiles_inbox[i])
  /\ \A i \in DOMAIN call_results : Stamped(call_results[i])

(* ------------------------------- C10 ----------------------------------- *)

MidHandler == {"clear_143", "text_229", "doc_198"}

\* between the count and the clear, and between the append and the count
\* read, the only step is the rest of the same handler
C10_NoStepBetween ==
  \A t \in Tasks :
    task[t].pc \in MidHandler =>
      /\ task'[t].pc = "reply"
      /\ \A u \in Tasks \ {t} : task'[u] = task[u]

C10_OwnPosition ==
  \A t \in Tasks :
    (HandleTextConfirm(t) \/ HandleDocumentConfirm(t)) =>
      /\ LastSent(sent').count = Len(profiles_inbox)
      /\ profiles_inbox[LastSent(sent').count] = task[t].profile_data

RECURSIVE ClearedTotal(_)
ClearedTotal(msgs) ==
  IF msgs = <<>> THEN 0
  ELSE (IF Head(msgs).type = "cleared" THEN Head(msgs).count ELSE 0)
         + ClearedTotal(Tail(msgs))

\* every profile appended is in the inbox or counted by a clear report
C10_Accounting ==
  Cardinality(SentOf("profile_added"))
      + Cardinality({ t \in Tasks : task[t].pc \in {"text_229", "doc_198"} })
    = Len(profiles_inbox) + ClearedTotal(sent)

\* C10: with handlers interleaving at their awaits, no other handler runs
\* between len() and clear() in clear_inbox nor between the append and the
\* count read of a confirmation: every removed profile is counted by a clear
\* report and each confirmation reports the position of its own profile.
C10_AtomicCountAndMutation ==
  [][C10_NoStepBetween /\ C10_OwnPosition /\ C10_Accounting']_vars

\* a clear has counted one profile and not yet cleared, while another
\* handler is suspended in an await
C10_Witness ==
  \E t, u \in Tasks :
    /\ t # u
    /\ task[t].pc = "clear_143"
    /\ task[t].count = 1
    /\ task[u].pc \in {"get_file", "download", "reply"}

====
